---- MODULE Spec2Model ----
(***************************************************************************)
(* A model of ldap_shell's object resolution and completion code:          *)
(*   - ADObjectCompleter.get_completions and _get_ad_objects               *)
(*     (completers/ad_object_completer.py),                                *)
(*   - LdapUtils._search_with_retry, get_domain_name, bin_to_string and    *)
(*     string_to_bin (utils/ldap_utils.py).                                *)
(* Python strings are sequences of one-character strings, so that          *)
(* lower(), find(), split(), count() and slicing are computed character by *)
(* character.                                                              *)
(***************************************************************************)
EXTENDS Integers, Sequences, FiniteSets, TLC

VARIABLES
    text,            \* document.text_before_cursor: the prompt's input line
    cache,           \* ADObjectCacheManager's store: class name -> set of names
    searches,        \* history: paged searches issued, per completer class
    stores,          \* history: set_cache calls, per completer class
    failedAt,        \* history: where the fill's search failed, per class
    firstStored,     \* history: the set the first set_cache call stored
    called,          \* history: whether a class has had a completion call
    call,            \* the last get_completions call and what it yielded
    directory,       \* the accounts behind client.search, in server order
    client_entries,  \* client.entries: what the last search returned
    resolve,         \* the last _search_with_retry call and what it returned
    uuid,            \* the 16 bytes handed to bin_to_string
    guid_text,       \* the text handed to string_to_bin
    edits,           \* how many times the two inputs were altered
    conv,            \* the last conversion and what it returned
    dn,              \* the distinguished name handed to get_domain_name
    domain           \* the last get_domain_name call and what it returned

completerVars == <<text, cache, searches, stores, failedAt, firstStored, called, call>>

resolverVars == <<directory, client_entries, resolve>>

guidVars == <<uuid, guid_text, edits, conv>>

dnVars == <<dn, domain>>

vars == <<completerVars, resolverVars, guidVars, dnVars>>

----------------------------------------------------------------------------
(* Bounds *)

MaxTextLen == 3

MaxDirLen == 2

MaxEdits == 1

MaxRDNs == 3

----------------------------------------------------------------------------
(* Python str operations, on sequences of characters *)

\* str.lower(), one character
LowerChar(c) ==
    CASE c = "A" -> "a"
      [] c = "C" -> "c"
      [] c = "D" -> "d"
      [] c = "N" -> "n"
      [] OTHER -> c

\* str.lower()
lower(s) == [i \in 1..Len(s) |-> LowerChar(s[i])]

\* str.isspace() of one character, as str.split() without arguments uses it
IsSpace(c) == c \in {" ", "\t", "\n"}

\* str.find(sub): the lowest 0-based index where sub starts, or -1
find(s, sub) ==
    LET idx == {i \in 0..(Len(s) - Len(sub)) : SubSeq(s, i + 1, i + Len(sub)) = sub}
    IN  IF idx = {} THEN -1 ELSE CHOOSE i \in idx : \A j \in idx : i <= j

\* the `in` operator on strings: sub in s
contains(sub, s) == find(s, sub) >= 0

\* str.count(c) for a one-character c
RECURSIVE count(_, _)
count(s, c) ==
    IF s = <<>> THEN 0
    ELSE (IF Head(s) = c THEN 1 ELSE 0) + count(Tail(s), c)

\* str.endswith(c) for a one-character c
endswith(s, c) == Len(s) > 0 /\ s[Len(s)] = c

\* str.split() without arguments: the maximal runs of non-whitespace
RECURSIVE SplitFrom(_, _, _, _)
SplitFrom(s, i, cur, acc) ==
    IF i > Len(s)
    THEN IF cur = <<>> THEN acc ELSE Append(acc, cur)
    ELSE IF IsSpace(s[i])
         THEN SplitFrom(s, i + 1, <<>>, IF cur = <<>> THEN acc ELSE Append(acc, cur))
         ELSE SplitFrom(s, i + 1, Append(cur, s[i]), acc)

split(s) == SplitFrom(s, 1, <<>>, <<>>)

----------------------------------------------------------------------------
(* The completer classes and the directory behind the paged search *)

CompleterClasses ==
    {"UserCompleter", "ComputerCompleter", "GroupCompleter", "OUCompleter"}

primary_attribute(cls) ==
    IF cls = "OUCompleter" THEN "name" ELSE "sAMAccountName"

fallback_attribute(cls) ==
    IF cls = "OUCompleter" THEN "distinguishedName" ELSE "name"

get_ldap_filter(cls) ==
    CASE cls = "UserCompleter" -> "(&(objectCategory=person)(objectClass=user))"
      [] cls = "ComputerCompleter" -> "(objectClass=computer)"
      [] cls = "GroupCompleter" -> "(objectClass=group)"
      [] cls = "OUCompleter" -> "(objectClass=organizationalUnit)"

\* What the directory returns to a paged search with the given filter: result
\* entries (attribute name -> value) and referrals, in server order.
NoAttributes == [a \in {} |-> <<>>]

SearchResEntry(attrs) == [type |-> "searchResEntry", attributes |-> attrs]

SearchResRef == [type |-> "searchResRef", attributes |-> NoAttributes]

paged_search(filter) ==
    CASE filter = "(&(objectCategory=person)(objectClass=user))" ->
            << SearchResEntry(("sAMAccountName" :> <<"a">>) @@ ("name" :> <<"A", " ", "a">>)),
               SearchResRef,
               SearchResEntry("name" :> <<"A", " ", "a">>) >>
      [] filter = "(objectClass=computer)" ->
            << SearchResEntry("sAMAccountName" :> <<"A", "a">>),
               SearchResEntry("sAMAccountName" :> <<"A", "a">>) >>
      [] filter = "(objectClass=group)" -> << >>
      [] filter = "(objectClass=organizationalUnit)" ->
            << SearchResEntry(NoAttributes),
               SearchResEntry(("name" :> <<"a", " ", "a">>)
                              @@ ("distinguishedName" :> <<"A">>)),
               SearchResEntry("distinguishedName" :> <<"A">>) >>

\* The search generator raises after it has yielded failAt entries; NoFail: it
\* is exhausted without raising.
NoFail == -1

FailPoints(cls) == {NoFail} \cup (0..Len(paged_search(get_ldap_filter(cls))))

----------------------------------------------------------------------------
(* ADObjectCompleter._get_ad_objects *)

\* One iteration of the loop over the search generator.
AddEntry(cls, objects, entry) ==
    IF entry.type # "searchResEntry" THEN objects
    ELSE IF primary_attribute(cls) \in DOMAIN entry.attributes
         THEN objects \cup {entry.attributes[primary_attribute(cls)]}
    ELSE IF fallback_attribute(cls) \in DOMAIN entry.attributes
         THEN objects \cup {entry.attributes[fallback_attribute(cls)]}
    ELSE objects

\* The loop over the first n entries the generator yields.
RECURSIVE CollectObjects(_, _, _)
CollectObjects(cls, entries, n) ==
    IF n = 0 THEN {}
    ELSE AddEntry(cls, CollectObjects(cls, entries, n - 1), entries[n])

\* A variant whose except clause would clear `objects`.
ObjectsAfterErrorDropped(objects) == {}

\* What the except clause leaves in `objects`: the handler only prints.
ObjectsAfterError(objects) == objects

\* objects: the returned set; raised: whether an exception leaves the method.
_get_ad_objects(cls, failAt) ==
    LET entries == paged_search(get_ldap_filter(cls))
    IN  IF failAt = NoFail
        THEN [objects |-> CollectObjects(cls, entries, Len(entries)), raised |-> FALSE]
        ELSE [objects |-> ObjectsAfterError(CollectObjects(cls, entries, failAt)),
              raised |-> FALSE]

----------------------------------------------------------------------------
(* ADObjectCacheManager (ldap_shell/completers/base.py), after the cache   *)
(* storage port of the specification: a store from keys to sets, in which  *)
(* get_cache(key) is None exactly for a key that was never set.            *)

get_cache_present(store, key) == key \in DOMAIN store

set_cache(store, key, objects) ==
    [k \in DOMAIN store \cup {key} |-> IF k = key THEN objects ELSE store[k]]

----------------------------------------------------------------------------
(* ADObjectCompleter.get_completions *)

in_quotes_of(t) ==
    (count(t, "\"") % 2) = 1 \/ (count(t, "'") % 2) = 1

\* A variant that would test `not cached_objects`, true of an empty set too.
NeedsFetchIfEmpty(store, key) ==
    IF get_cache_present(store, key) THEN store[key] = {} ELSE TRUE

\* `cached_objects is None`
NeedsFetch(store, key) == ~get_cache_present(store, key)

word_before_cursor_of(t) ==
    IF endswith(t, " ") THEN <<>>
    ELSE IF split(t) # <<>> THEN split(t)[Len(split(t))] ELSE <<>>

\* A variant that would wrap without looking at in_quotes.
QuoteAlways(obj, in_quotes) ==
    IF contains(<<" ">>, obj) THEN <<"\"">> \o obj \o <<"\"">> ELSE obj

\* The loop variable obj after the quoting step.
QuotedObj(obj, in_quotes) ==
    IF contains(<<" ">>, obj) /\ ~in_quotes THEN <<"\"">> \o obj \o <<"\"">> ELSE obj

\* The filter of the loop, on the loop variable as it stands after quoting.
Matches(word, obj) == contains(lower(word), lower(obj))

\* The Completion objects the generator yields, each with the catalog name it
\* came from.
Completions(cached_objects, t) ==
    LET in_quotes == in_quotes_of(t)
        word == word_before_cursor_of(t)
    IN  { [name |-> o,
           text |-> QuotedObj(o, in_quotes),
           start_position |-> 0 - Len(word)] :
          o \in {x \in cached_objects : Matches(word, QuotedObj(x, in_quotes))} }

\* A variant whose loop would write the quoted names back into the set.
CatalogAfterLoopQuoted(cached_objects, t) ==
    {QuotedObj(o, in_quotes_of(t)) : o \in cached_objects}

\* The set object behind cached_objects once the loop has run: the loop
\* rebinds its variable obj and never writes to the set.
CatalogAfterLoop(cached_objects, t) == cached_objects

NoCall ==
    [cls |-> "none", fetched |-> FALSE, raised |-> FALSE, in_quotes |-> FALSE,
     word_before_cursor |-> <<>>, completions |-> {}]

\* A call with a Document, its generator run to the end.
get_completions(cls, failAt) ==
    LET fetch == NeedsFetch(cache, cls)
        got == _get_ad_objects(cls, failAt)
        cached_objects == IF fetch THEN got.objects ELSE cache[cls]
        \* the store after line 30; it holds the very set object the loop reads
        filled == IF fetch THEN set_cache(cache, cls, cached_objects) ELSE cache
    IN  /\ IF fetch THEN TRUE ELSE failAt = NoFail
        /\ cache' = [filled EXCEPT ![cls] = CatalogAfterLoop(cached_objects, text)]
        /\ searches' = IF fetch THEN [searches EXCEPT ![cls] = @ + 1] ELSE searches
        /\ stores' = IF fetch THEN [stores EXCEPT ![cls] = @ + 1] ELSE stores
        /\ failedAt' = IF fetch THEN [failedAt EXCEPT ![cls] = failAt] ELSE failedAt
        /\ firstStored' = IF fetch /\ stores[cls] = 0
                          THEN [firstStored EXCEPT ![cls] = cached_objects]
                          ELSE firstStored
        /\ call' = [cls |-> cls, fetched |-> fetch, raised |-> fetch /\ got.raised,
                    in_quotes |-> in_quotes_of(text),
                    word_before_cursor |-> word_before_cursor_of(text),
                    completions |-> Completions(cached_objects, text)]
        /\ called' = [called EXCEPT ![cls] = TRUE]
        /\ UNCHANGED <<text, resolverVars, guidVars, dnVars>>

\* A call whose document is not a Document returns at once.
get_completions_no_document(cls) ==
    /\ call' = NoCall
    /\ UNCHANGED <<text, cache, searches, stores, failedAt, firstStored, called>>
    /\ UNCHANGED <<resolverVars, guidVars, dnVars>>

----------------------------------------------------------------------------
(* LdapUtils._search_with_retry *)

\* The short names the operator asks for and the sAMAccountName values the
\* directory may hold.
QueryNames == {<<"p">>, <<"p", "$">>, <<"q">>}

AccountNames == {<<"p">>, <<"p", "$">>, <<"p", "$", "$">>, <<"q">>, <<"q", "$">>}

\* client.search with the filter (sAMAccountName=name): the entries whose
\* sAMAccountName equals name, each known by its place in the directory.
RECURSIVE SearchFrom(_, _, _)
SearchFrom(dir, name, i) ==
    IF i > Len(dir) THEN <<>>
    ELSE (IF dir[i] = name THEN <<[entry_dn |-> i, sAMAccountName |-> dir[i]]>> ELSE <<>>)
         \o SearchFrom(dir, name, i + 1)

search(dir, name) == SearchFrom(dir, name, 1)

\* A variant that would retry whatever the name ends with.
ShouldRetryAlways(name) == TRUE

\* `not name.endswith('$')`
ShouldRetry(name) == ~endswith(name, "$")

NoResolve == [name |-> <<>>, searched |-> <<>>, found |-> FALSE, entry |-> <<>>]

\* searched: the names of the searches issued, in order; found and entry: the
\* entry returned, or None.
_search_with_retry(name) ==
    LET first == search(directory, name)
        retry_name == name \o <<"$">>
        retry == search(directory, retry_name)
    IN  /\ IF first # <<>>
           THEN /\ client_entries' = first
                /\ resolve' = [name |-> name, searched |-> <<name>>,
                               found |-> TRUE, entry |-> <<first[1]>>]
           ELSE IF ShouldRetry(name)
           THEN /\ client_entries' = retry
                /\ resolve' = [name |-> name, searched |-> <<name, retry_name>>,
                               found |-> retry # <<>>,
                               entry |-> IF retry # <<>> THEN <<retry[1]>> ELSE <<>>]
           ELSE /\ client_entries' = first
                /\ resolve' = [name |-> name, searched |-> <<name>>,
                               found |-> FALSE, entry |-> <<>>]
        /\ UNCHANGED <<directory, completerVars, guidVars, dnVars>>

\* The directory changes between calls: an account is created or deleted.
AddAccount(name) ==
    /\ Len(directory) < MaxDirLen
    /\ directory' = Append(directory, name)
    /\ resolve' = NoResolve
    /\ UNCHANGED <<client_entries, completerVars, guidVars, dnVars>>

RemoveAccount(i) ==
    /\ i \in 1..Len(directory)
    /\ directory' = SubSeq(directory, 1, i - 1) \o SubSeq(directory, i + 1, Len(directory))
    /\ resolve' = NoResolve
    /\ UNCHANGED <<client_entries, completerVars, guidVars, dnVars>>

----------------------------------------------------------------------------
(* LdapUtils.bin_to_string and string_to_bin *)

\* An unsigned integer is held as its base-256 digits, most significant
\* first, with the width of its struct field: the 32-bit fields of a GUID do
\* not fit TLC's signed 32-bit integers.
Reverse(s) == [i \in 1..Len(s) |-> s[Len(s) + 1 - i]]

\* struct.unpack of one '<' (little-endian) and one '>' (big-endian) field
UnpackLE(bytes) == Reverse(bytes)

UnpackBE(bytes) == bytes

\* A variant that would pack the first three fields big-endian.
PackLEAsBE(value) == value

\* struct.pack of one '<' and one '>' field
PackLE(value) == Reverse(value)

PackBE(value) == value

UpperHexDigits ==
    <<"0", "1", "2", "3", "4", "5", "6", "7", "8", "9", "A", "B", "C", "D", "E", "F">>

LowerHexDigits ==
    <<"0", "1", "2", "3", "4", "5", "6", "7", "8", "9", "a", "b", "c", "d", "e", "f">>

\* '%0NX' of a field N/2 bytes wide: two upper-case digits for each byte
RECURSIVE FormatX(_)
FormatX(value) ==
    IF value = <<>> THEN <<>>
    ELSE <<UpperHexDigits[(Head(value) \div 16) + 1], UpperHexDigits[(Head(value) % 16) + 1]>>
         \o FormatX(Tail(value))

\* the character class [\dA-Fa-f]
IsHexDigit(c) == \E k \in 1..16 : UpperHexDigits[k] = c \/ LowerHexDigits[k] = c

\* int(c, 16) of one digit
HexDigitValue(c) ==
    (CHOOSE k \in 1..16 : UpperHexDigits[k] = c \/ LowerHexDigits[k] = c) - 1

\* int(x, 16) of a group of an even number of digits
RECURSIVE ParseHex(_)
ParseHex(x) ==
    IF x = <<>> THEN <<>>
    ELSE <<16 * HexDigitValue(x[1]) + HexDigitValue(x[2])>> \o ParseHex(Tail(Tail(x)))

bin_to_string(u) ==
    LET uuid1 == UnpackLE(SubSeq(u, 1, 4))
        uuid2 == UnpackLE(SubSeq(u, 5, 6))
        uuid3 == UnpackLE(SubSeq(u, 7, 8))
        uuid4 == UnpackBE(SubSeq(u, 9, 10))
        uuid5 == UnpackBE(SubSeq(u, 11, 12))
        uuid6 == UnpackBE(SubSeq(u, 13, 16))
    IN  FormatX(uuid1) \o <<"-">> \o FormatX(uuid2) \o <<"-">> \o FormatX(uuid3)
        \o <<"-">> \o FormatX(uuid4) \o <<"-">> \o FormatX(uuid5) \o FormatX(uuid6)

\* re.match of the pattern: it is tried at the start of the text and need not
\* reach its end. The pattern holds no alternative: 36 characters, each a
\* hexadecimal digit or, at the 9th, 14th, 19th and 24th place, a hyphen.
HyphenPlaces == {9, 14, 19, 24}

GuidTextLen == 36

re_match(t) ==
    /\ Len(t) >= GuidTextLen
    /\ \A i \in 1..GuidTextLen :
          IF i \in HyphenPlaces THEN t[i] = "-" ELSE IsHexDigit(t[i])

\* bytes: the value returned; raised: the exception that leaves the function
\* (matches is None, and None has no groups).
string_to_bin(t) ==
    IF ~re_match(t)
    THEN [bytes |-> <<>>, raised |-> "AttributeError"]
    ELSE LET uuid1 == ParseHex(SubSeq(t, 1, 8))
             uuid2 == ParseHex(SubSeq(t, 10, 13))
             uuid3 == ParseHex(SubSeq(t, 15, 18))
             uuid4 == ParseHex(SubSeq(t, 20, 23))
             uuid5 == ParseHex(SubSeq(t, 25, 28))
             uuid6 == ParseHex(SubSeq(t, 29, 36))
         IN  [bytes |-> PackLE(uuid1) \o PackLE(uuid2) \o PackLE(uuid3)
                        \o PackBE(uuid4) \o PackBE(uuid5) \o PackBE(uuid6),
              raised |-> "none"]

NoConv == [op |-> "none", text |-> <<>>, bytes |-> <<>>, raised |-> "none"]

call_bin_to_string ==
    /\ conv' = [op |-> "bin_to_string", text |-> bin_to_string(uuid),
                bytes |-> <<>>, raised |-> "none"]
    /\ UNCHANGED <<uuid, guid_text, edits, completerVars, resolverVars, dnVars>>

call_string_to_bin ==
    /\ conv' = [op |-> "string_to_bin", text |-> <<>>,
                bytes |-> string_to_bin(guid_text).bytes,
                raised |-> string_to_bin(guid_text).raised]
    /\ UNCHANGED <<uuid, guid_text, edits, completerVars, resolverVars, dnVars>>

\* string_to_bin(bin_to_string(uuid))
bin_round_trip ==
    /\ conv' = [op |-> "bin_round_trip", text |-> <<>>,
                bytes |-> string_to_bin(bin_to_string(uuid)).bytes,
                raised |-> string_to_bin(bin_to_string(uuid)).raised]
    /\ UNCHANGED <<uuid, guid_text, edits, completerVars, resolverVars, dnVars>>

\* bin_to_string(string_to_bin(guid_text))
text_round_trip ==
    LET parsed == string_to_bin(guid_text)
    IN  /\ conv' = [op |-> "text_round_trip",
                    text |-> IF parsed.raised = "none"
                             THEN bin_to_string(parsed.bytes) ELSE <<>>,
                    bytes |-> <<>>, raised |-> parsed.raised]
        /\ UNCHANGED <<uuid, guid_text, edits, completerVars, resolverVars, dnVars>>

\* The inputs: a byte of the GUID or a character of the text is replaced, a
\* character is deleted from the text or appended to it.
ByteValues == {0, 255}

TextChars == {"f", "G", "-"}

SetByte(i, b) ==
    /\ edits < MaxEdits
    /\ uuid[i] # b
    /\ uuid' = [uuid EXCEPT ![i] = b]
    /\ edits' = edits + 1
    /\ conv' = NoConv
    /\ UNCHANGED <<guid_text, completerVars, resolverVars, dnVars>>

SetTextChar(i, c) ==
    /\ edits < MaxEdits
    /\ i <= Len(guid_text)
    /\ guid_text[i] # c
    /\ guid_text' = [guid_text EXCEPT ![i] = c]
    /\ edits' = edits + 1
    /\ conv' = NoConv
    /\ UNCHANGED <<uuid, completerVars, resolverVars, dnVars>>

DeleteTextChar(i) ==
    /\ edits < MaxEdits
    /\ i <= Len(guid_text)
    /\ guid_text' = SubSeq(guid_text, 1, i - 1) \o SubSeq(guid_text, i + 1, Len(guid_text))
    /\ edits' = edits + 1
    /\ conv' = NoConv
    /\ UNCHANGED <<uuid, completerVars, resolverVars, dnVars>>

AppendTextChar(c) ==
    /\ edits < MaxEdits
    /\ guid_text' = Append(guid_text, c)
    /\ edits' = edits + 1
    /\ conv' = NoConv
    /\ UNCHANGED <<uuid, completerVars, resolverVars, dnVars>>

GuidInit ==
    /\ uuid = <<1, 35, 69, 103, 137, 171, 205, 239, 254, 220, 186, 152, 118, 84, 50, 16>>
    /\ guid_text = << "0", "1", "2", "3", "4", "5", "6", "7", "-",
                      "8", "9", "a", "b", "-", "C", "D", "E", "F", "-",
                      "0", "1", "2", "3", "-", "4", "5", "6", "7",
                      "8", "9", "a", "b", "c", "D", "E", "F" >>
    /\ edits = 0
    /\ conv = NoConv

----------------------------------------------------------------------------
(* LdapUtils.get_domain_name *)

\* s[i:] for a 0-based index i, which counts from the end when negative
SliceFrom(s, i) ==
    LET start == IF i >= 0 THEN i ELSE (IF Len(s) + i > 0 THEN Len(s) + i ELSE 0)
    IN  SubSeq(s, start + 1, Len(s))

\* re.sub(pattern, repl, s, flags=re.I) for a pattern of literal characters:
\* the matches are found from left to right and do not overlap
RECURSIVE re_sub_I(_, _, _)
re_sub_I(pattern, repl, s) ==
    IF s = <<>> THEN <<>>
    ELSE IF Len(s) >= Len(pattern) /\ lower(SubSeq(s, 1, Len(pattern))) = lower(pattern)
         THEN repl \o re_sub_I(pattern, repl, SubSeq(s, Len(pattern) + 1, Len(s)))
         ELSE <<Head(s)>> \o re_sub_I(pattern, repl, Tail(s))

\* Where the first 'DC=' starts when case is ignored.
MarkerIndexIgnoringCase(d) == find(lower(d), lower(<<"D", "C", "=">>))

\* dn.find('DC=')
MarkerIndex(d) == find(d, <<"D", "C", "=">>)

get_domain_name(d) ==
    SliceFrom(re_sub_I(<<",", "D", "C", "=">>, <<".">>, SliceFrom(d, MarkerIndex(d))), 3)

NoDomain == [called |-> FALSE, out |-> <<>>]

call_get_domain_name ==
    /\ domain' = [called |-> TRUE, out |-> get_domain_name(dn)]
    /\ UNCHANGED <<dn, completerVars, resolverVars, guidVars>>

\* The distinguished names: relative names joined by commas.
RDNs ==
    { <<"C", "N", "=", "x">>, <<"D", "C", "=", "a">>, <<"d", "c", "=", "a">>,
      <<"D", "C", "=", "b">>, <<"d", "c", "=", "b">> }

AppendRDN(rdn) ==
    /\ count(dn, ",") + 1 < MaxRDNs \/ dn = <<>>
    /\ dn' = IF dn = <<>> THEN rdn ELSE dn \o <<",">> \o rdn
    /\ domain' = NoDomain
    /\ UNCHANGED <<completerVars, resolverVars, guidVars>>

ClearDN ==
    /\ dn # <<>>
    /\ dn' = <<>>
    /\ domain' = NoDomain
    /\ UNCHANGED <<completerVars, resolverVars, guidVars>>

DnInit ==
    /\ dn = <<>>
    /\ domain = NoDomain

----------------------------------------------------------------------------
(* The prompt: the operator edits the input line between completion calls *)

\* The characters the operator types where matching and quoting are studied,
\* and the fewer ones typed where the cache fill and its failures are.
Chars == {"A", " ", "\t", "\"", "'"}

CacheChars == {"A", "\""}

TypeChar(c) ==
    /\ Len(text) < MaxTextLen
    /\ text' = Append(text, c)
    /\ call' = NoCall
    /\ UNCHANGED <<cache, searches, stores, failedAt, firstStored, called>>
    /\ UNCHANGED <<resolverVars, guidVars, dnVars>>

ClearLine ==
    /\ text # <<>>
    /\ text' = <<>>
    /\ call' = NoCall
    /\ UNCHANGED <<cache, searches, stores, failedAt, firstStored, called>>
    /\ UNCHANGED <<resolverVars, guidVars, dnVars>>

CompleterInit ==
    /\ text = <<>>
    /\ cache = [k \in {} |-> {}]
    /\ searches = [c \in CompleterClasses |-> 0]
    /\ stores = [c \in CompleterClasses |-> 0]
    /\ failedAt = [c \in CompleterClasses |-> NoFail]
    /\ firstStored = [c \in CompleterClasses |-> {}]
    /\ called = [c \in CompleterClasses |-> FALSE]
    /\ call = NoCall

ResolverInit ==
    /\ directory = <<>>
    /\ client_entries = <<>>
    /\ resolve = NoResolve

----------------------------------------------------------------------------
(* The specifications *)

Init == CompleterInit /\ ResolverInit /\ GuidInit /\ DnInit

\* Completion calls whose cache fill may fail at any point.
Next ==
    \/ \E cls \in CompleterClasses : \E failAt \in FailPoints(cls) :
          get_completions(cls, failAt)
    \/ \E cls \in CompleterClasses : get_completions_no_document(cls)
    \/ \E c \in CacheChars : TypeChar(c)
    \/ ClearLine

Spec == Init /\ [][Next]_vars

\* Completion calls over every input line, the searches running to their end.
NextMatch ==
    \/ \E cls \in CompleterClasses : get_completions(cls, NoFail)
    \/ \E cls \in CompleterClasses : get_completions_no_document(cls)
    \/ \E c \in Chars : TypeChar(c)
    \/ ClearLine

SpecMatch == Init /\ [][NextMatch]_vars

\* Name resolution against a directory that changes between calls.
NextResolver ==
    \/ \E name \in QueryNames : _search_with_retry(name)
    \/ \E name \in AccountNames : AddAccount(name)
    \/ \E i \in 1..MaxDirLen : RemoveAccount(i)

SpecResolver == Init /\ [][NextResolver]_vars

\* The GUID codec applied to an altered byte string and an altered text.
NextGuid ==
    \/ \E i \in 1..16 : \E b \in ByteValues : SetByte(i, b)
    \/ \E i \in 1..GuidTextLen : \E c \in TextChars : SetTextChar(i, c)
    \/ \E i \in 1..GuidTextLen : DeleteTextChar(i)
    \/ \E c \in TextChars : AppendTextChar(c)
    \/ call_bin_to_string
    \/ call_string_to_bin
    \/ bin_round_trip
    \/ text_round_trip

SpecGuid == Init /\ [][NextGuid]_vars

\* get_domain_name applied to distinguished names built from components.
NextDn ==
    \/ \E rdn \in RDNs : AppendRDN(rdn)
    \/ ClearDN
    \/ call_get_domain_name

SpecDn == Init /\ [][NextDn]_vars

----------------------------------------------------------------------------
(* Properties of the completion engine *)

CallMade == call.cls \in CompleterClasses

\* The names the directory's first k answers to a class's search carry, read
\* off the directory: the primary attribute, else the fallback, referrals and
\* entries with neither skipped.
NamesReadBefore(cls, k) ==
    CASE cls = "UserCompleter" ->
            IF k = 0 THEN {}
            ELSE IF k < 3 THEN {<<"a">>}
            ELSE {<<"a">>, <<"A", " ", "a">>}
      [] cls = "ComputerCompleter" -> IF k = 0 THEN {} ELSE {<<"A", "a">>}
      [] cls = "GroupCompleter" -> {}
      [] cls = "OUCompleter" ->
            IF k < 2 THEN {}
            ELSE IF k = 2 THEN {<<"a", " ", "a">>}
            ELSE {<<"a", " ", "a">>, <<"A">>}

NamesRead(cls) == NamesReadBefore(cls, Len(paged_search(get_ldap_filter(cls))))

HasSpace(name) == \E i \in 1..Len(name) : name[i] = " "

Wrapped(name) == <<"\"">> \o name \o <<"\"">>

EmittedNames == {c.name : c \in call.completions}

\* C1: over any sequence of completion calls, each class's paged search and
\* cache write have happened exactly once as soon as the class has had a
\* first completion call, and never again however many calls follow, also
\* when the set fetched was empty; a class never called has had neither.
C1_FetchedOncePerClass ==
    \A cls \in CompleterClasses :
        /\ searches[cls] = (IF called[cls] THEN 1 ELSE 0)
        /\ stores[cls] = searches[cls]
        /\ called[cls] <=> get_cache_present(cache, cls)
        /\ (call.cls = cls /\ ~call.fetched) => searches[cls] = 1

\* C1 witness: a later call for the group class, whose one fetch ran to its
\* end and stored the empty set.
C1_Witness ==
    /\ call.cls = "GroupCompleter"
    /\ ~call.fetched
    /\ failedAt["GroupCompleter"] = NoFail
    /\ cache["GroupCompleter"] = {}
    /\ searches["GroupCompleter"] = 1

C10_CatalogNeverChanges ==
    /\ DOMAIN cache = {cls \in CompleterClasses : called[cls]}
    /\ \A cls \in DOMAIN cache :
          /\ cache[cls] = firstStored[cls]
          /\ cache[cls] = NamesReadBefore(cls, IF failedAt[cls] = NoFail
                                               THEN Len(paged_search(get_ldap_filter(cls)))
                                               ELSE failedAt[cls])

\* C10 witness: a later call for the user class outside any quote has emitted
\* a wrapped candidate, with the OU catalog cached beside it.
C10_Witness ==
    /\ call.cls = "UserCompleter"
    /\ ~call.fetched
    /\ ~call.in_quotes
    /\ \E c \in call.completions : c.text = Wrapped(c.name)
    /\ cache["UserCompleter"] = NamesRead("UserCompleter")
    /\ get_cache_present(cache, "OUCompleter")
    /\ cache["OUCompleter"] = NamesRead("OUCompleter")

\* C4 as claimed: a catalog name is emitted if and only if the current word,
\* lower-cased, is a substring of the lower-cased name as stored.
C4_EmittedIffWordInStoredName ==
    CallMade =>
        \A o \in cache[call.cls] :
            (o \in EmittedNames) <=>
                (\E i \in 0..(Len(o) - Len(call.word_before_cursor)) :
                    \A j \in 1..Len(call.word_before_cursor) :
                        LowerChar(o[i + j]) = LowerChar(call.word_before_cursor[j]))

\* The final whitespace-delimited token of a line that does not end in
\* whitespace: its longest suffix free of whitespace.
FinalToken(t) ==
    LET starts == {i \in 1..Len(t) : \A j \in i..Len(t) : ~IsSpace(t[j])}
    IN  IF starts = {} THEN <<>>
        ELSE SubSeq(t, CHOOSE i \in starts : \A k \in starts : i <= k, Len(t))

\* C5 as claimed: when the line ends with a whitespace character the current
\* word is empty and every catalog name is suggested; otherwise the current
\* word is the line's final whitespace-delimited token.
C5_WordEmptyAfterAnyWhitespace ==
    CallMade =>
        IF text # <<>> /\ IsSpace(text[Len(text)])
        THEN call.word_before_cursor = <<>> /\ EmittedNames = cache[call.cls]
        ELSE call.word_before_cursor = FinalToken(text)

\* The in-quote state: an odd number of double quotes or of single quotes.
OddCount(t, c) == Cardinality({i \in 1..Len(t) : t[i] = c}) % 2 = 1

InQuoteState == OddCount(text, "\"") \/ OddCount(text, "'")

\* C6: every emitted candidate whose name holds a space is inserted wrapped
\* in double quotes when the line is not inside an open quote and exactly as
\* stored when it is; a name without a space is never wrapped.
C6_QuotingPolicy ==
    CallMade =>
        \A c \in call.completions :
            /\ c.name \in cache[call.cls]
            /\ (HasSpace(c.name) /\ ~InQuoteState) => c.text = Wrapped(c.name)
            /\ (HasSpace(c.name) /\ InQuoteState) => c.text = c.name
            /\ ~HasSpace(c.name) => c.text = c.name

\* C6 witness: inside an open single quote a name with a space is emitted as
\* stored, beside a name without a space.
C6_Witness ==
    /\ CallMade
    /\ OddCount(text, "'")
    /\ ~OddCount(text, "\"")
    /\ \E c \in call.completions : HasSpace(c.name) /\ c.text = c.name
    /\ \E c \in call.completions : ~HasSpace(c.name)

----------------------------------------------------------------------------
(* Properties of the identity resolver *)

\* The entries of the directory whose sAMAccountName is name, in server order.
EntriesNamed(name) == {i \in 1..Len(directory) : directory[i] = name}

FirstNamed(name) == CHOOSE i \in EntriesNamed(name) : \A j \in EntriesNamed(name) : i <= j

EndsWithDollar(name) == name # <<>> /\ name[Len(name)] = "$"

\* C3: _search_with_retry issues at most two searches. It returns the first
\* entry of the search for the name when there is one, with no retry; with
\* no entry and a name not ending in '$' it searches once more, for name + '$',
\* and returns that search's first entry or None; with no entry and a name
\* ending in '$' it searches no more and returns None.
C3_AtMostOneRetry ==
    resolve # NoResolve =>
        LET name == resolve.name IN
        /\ Len(resolve.searched) \in {1, 2}
        /\ resolve.searched[1] = name
        /\ EntriesNamed(name) # {} =>
              /\ resolve.searched = <<name>>
              /\ resolve.found
              /\ resolve.entry[1].entry_dn = FirstNamed(name)
        /\ (EntriesNamed(name) = {} /\ ~EndsWithDollar(name)) =>
              /\ resolve.searched = <<name, Append(name, "$")>>
              /\ resolve.found <=> EntriesNamed(Append(name, "$")) # {}
              /\ resolve.found => resolve.entry[1].entry_dn = FirstNamed(Append(name, "$"))
        /\ (EntriesNamed(name) = {} /\ EndsWithDollar(name)) =>
              /\ resolve.searched = <<name>>
              /\ ~resolve.found
        /\ ~resolve.found => resolve.entry = <<>>

\* C3 witness: 'p$' is asked for, the directory holds 'p$$' and no 'p$': one
\* search, no retry, None.
C3_Witness ==
    /\ resolve.name = <<"p", "$">>
    /\ directory = <<<<"p", "$", "$">>, <<"p">>>>
    /\ resolve.searched = <<<<"p", "$">>>>
    /\ ~resolve.found

----------------------------------------------------------------------------
(* Properties of the GUID codec *)

\* Five hyphen-delimited groups of 8, 4, 4, 4 and 12 hexadecimal digits, and
\* nothing else.
Canonical(t) ==
    /\ Len(t) = 36
    /\ \A i \in 1..36 :
          IF i \in {9, 14, 19, 24}
          THEN t[i] = "-"
          ELSE t[i] \in {"0", "1", "2", "3", "4", "5", "6", "7", "8", "9",
                         "A", "B", "C", "D", "E", "F", "a", "b", "c", "d", "e", "f"}

UpperChar(c) ==
    CASE c = "a" -> "A" [] c = "b" -> "B" [] c = "c" -> "C"
      [] c = "d" -> "D" [] c = "e" -> "E" [] c = "f" -> "F" [] OTHER -> c

Upper(t) == [i \in 1..Len(t) |-> UpperChar(t[i])]

HexOfByte(b) == <<UpperHexDigits[(b \div 16) + 1], UpperHexDigits[(b % 16) + 1]>>

\* The text of a GUID, byte by byte: bytes 0-3, 4-5 and 6-7 little-endian,
\* bytes 8-9, 10-11 and 12-15 big-endian (the bytes counted from 0).
Layout(u) ==
    HexOfByte(u[4]) \o HexOfByte(u[3]) \o HexOfByte(u[2]) \o HexOfByte(u[1]) \o <<"-">>
    \o HexOfByte(u[6]) \o HexOfByte(u[5]) \o <<"-">>
    \o HexOfByte(u[8]) \o HexOfByte(u[7]) \o <<"-">>
    \o HexOfByte(u[9]) \o HexOfByte(u[10]) \o <<"-">>
    \o HexOfByte(u[11]) \o HexOfByte(u[12])
    \o HexOfByte(u[13]) \o HexOfByte(u[14]) \o HexOfByte(u[15]) \o HexOfByte(u[16])

\* C7: string_to_bin(bin_to_string(b)) = b for the 16 bytes b, and
\* bin_to_string(string_to_bin(s)) is s with its letters upper-cased for a
\* canonical text s; the text of b follows the mixed-endian field layout.
C7_GuidRoundTrip ==
    /\ conv.op = "bin_round_trip" => (conv.raised = "none" /\ conv.bytes = uuid)
    /\ (conv.op = "text_round_trip" /\ Canonical(guid_text)) =>
          (conv.raised = "none" /\ conv.text = Upper(guid_text))
    /\ conv.op = "bin_to_string" => conv.text = Layout(uuid)

\* C7 witness: the round trip of a canonical text with lower-case letters,
\* one of its digits replaced, has returned its upper-cased form.
C7_Witness ==
    /\ conv.op = "text_round_trip"
    /\ Canonical(guid_text)
    /\ edits = 1
    /\ guid_text[1] = "f"
    /\ conv.text # guid_text
    /\ conv.text[1] = "F"

\* C8 as claimed: string_to_bin fails, and returns no bytes, for every text
\* that is not exactly five hyphen-delimited groups of 8, 4, 4, 4 and 12
\* hexadecimal digits.
C8_RejectsEveryNonCanonicalText ==
    (conv.op = "string_to_bin" /\ ~Canonical(guid_text)) =>
        (conv.raised # "none" /\ conv.bytes = <<>>)

----------------------------------------------------------------------------
(* Properties of get_domain_name *)

\* C9 as claimed: the first 'DC=' marker is located ignoring case; the text
\* from there to the end, each following ',DC=' replaced by a dot and the
\* leading marker dropped, is the domain name.
C9_MarkerFoundIgnoringCase ==
    (domain.called /\ MarkerIndexIgnoringCase(dn) >= 0) =>
        domain.out = SliceFrom(re_sub_I(<<",", "D", "C", "=">>, <<".">>,
                                        SliceFrom(dn, MarkerIndexIgnoringCase(dn))), 3)

====
